---- MODULE Spec2Model ----
(***************************************************************************)
(* Rayleigh profile calculator of datas/lidar/lidar_utilities.py.          *)
(*                                                                         *)
(* Numbers.  A float is modelled by an exact fraction [n, d] in lowest     *)
(* terms with d >= 0; d = 0 stands for the IEEE specials the numpy         *)
(* operations produce instead of failing: [1,0] = inf, [-1,0] = -inf and   *)
(* [0,0] = nan.  Rounding is not modelled.                                 *)
(*                                                                         *)
(* Quantities.  The physical constants (kB, the fit coefficient, the       *)
(* cross-section) are far outside the integer range, so an array or a      *)
(* scalar of the pipeline is a record [f, v]: v is the exact fraction (or  *)
(* the sequence of fractions) and f is the sequence of symbolic, finite    *)
(* and strictly positive scalar factors that multiply it.                  *)
(*                                                                         *)
(* Arrays are numpy arrays (sequences, index k of the code is k+1 here):    *)
(* two arrays combine elementwise when their lengths are equal or one of   *)
(* them has length 1, and raise ValueError otherwise.  The index alignment *)
(* of pandas Series of unequal length (padding with nan) is not modelled.  *)
(*                                                                         *)
(* A call yields its outcome (a returned value or a raised exception) and  *)
(* the content of the caller's argument objects when the call ends.        *)
(***************************************************************************)
EXTENDS Integers, Sequences, FiniteSets, TLC

VARIABLES
    wavelength,           \* caller's wavelength (a fraction)
    pressure,             \* caller's pressure array
    temperature,          \* caller's temperature array
    altitude,             \* caller's altitude array
    rayleigh_extinction,  \* caller's extinction array (direct calls of calc_rayleigh_trans)
    nanometers,           \* unit flags
    kilometers,
    celsius,
    pc,                   \* position of the calling script
    returned,             \* function name -> what its last call returned
    locals                \* local variables of the last calc_rayleigh_trans frame

vars == <<wavelength, pressure, temperature, altitude, rayleigh_extinction,
          nanometers, kilometers, celsius, pc, returned, locals>>

----------------------------------------------------------------------------
(* Bounds and sample values *)

MaxLen == 3       \* longest array handed to calc_rayleigh_trans directly
MaxProfile == 2   \* longest pressure / temperature / altitude profile of the pipeline

WavelengthsNm == {199, 200, 266, 1064, 1065}
Pressures == {1, 2, 3}
TemperatureSamples == {<<0, 1>>, <<537, 20>>}   \* 0 and 26.85
Altitudes == {0, 500, 2000}
Extinctions == {-1, 0, 2}

----------------------------------------------------------------------------
(* Float arithmetic *)

Abs(x) == IF x < 0 THEN -x ELSE x

Sign(x) == IF x < 0 THEN -1 ELSE IF x = 0 THEN 0 ELSE 1

RECURSIVE GCD(_, _)
GCD(a, b) == IF b = 0 THEN a ELSE GCD(b, a % b)

Rat(n, d) ==
    IF d = 0 THEN [n |-> Sign(n), d |-> 0]
    ELSE LET g == GCD(Abs(n), Abs(d))
         IN  [n |-> Sign(d) * (n \div g), d |-> Abs(d) \div g]

Whole(k) == [n |-> k, d |-> 1]

Zero == Whole(0)

NaN == [n |-> 0, d |-> 0]

IsFinite(x) == x.d # 0

Add(x, y) ==
    IF x.d = 0 /\ y.d = 0 THEN (IF x.n = y.n THEN x ELSE NaN)
    ELSE IF x.d = 0 THEN x
    ELSE IF y.d = 0 THEN y
    ELSE LET g == GCD(x.d, y.d)
         IN  Rat(x.n * (y.d \div g) + y.n * (x.d \div g), (x.d \div g) * y.d)

Neg(x) == [n |-> -x.n, d |-> x.d]

Sub(x, y) == Add(x, Neg(y))

Mul(x, y) ==
    LET g1 == GCD(Abs(x.n), y.d)
        g2 == GCD(Abs(y.n), x.d)
    IN  IF x.d = 0 \/ y.d = 0 THEN Rat(x.n * y.n, 0)
        ELSE Rat((x.n \div g1) * (y.n \div g2), (x.d \div g2) * (y.d \div g1))

Div(x, y) ==
    IF y.d = 0 THEN (IF x.d = 0 THEN NaN ELSE Zero)
    ELSE IF y.n = 0 THEN Rat(x.n, 0)
    ELSE Mul(x, [n |-> Sign(y.n) * y.d, d |-> Abs(y.n)])

\* x < y for finite x, y
Less(x, y) == x.n * y.d < y.n * x.d

Floor(x) == x.n \div x.d

----------------------------------------------------------------------------
(* Symbolic factors and quantities *)

Sym(name, args) == [name |-> name, args |-> args]

Unit == << >>

Quantity(f, v) == [f |-> f, v |-> v]

\* array * scalar and array / scalar: a new array, the operand is left alone
ArrMulScalar(a, s) == [k \in 1..Len(a) |-> Mul(a[k], s)]

ArrDivScalar(a, s) == [k \in 1..Len(a) |-> Div(a[k], s)]

ArrAddScalar(a, s) == [k \in 1..Len(a) |-> Add(a[k], s)]

----------------------------------------------------------------------------
(* Outcome of a call: a returned value or a raised exception.  `after` is   *)
(* the content of the caller's argument objects when the call ends.         *)

Ok(v) == [ret |-> v]

Raised(exc) == [raised |-> exc]

IsRaised(r) == "raised" \in DOMAIN r

IsOk(r) == "ret" \in DOMAIN r

\* the slip `x /= s`: the division done in place, on the caller's array
TrueDivideInPlace(a, s) == [result |-> ArrDivScalar(a, s), operand |-> ArrDivScalar(a, s)]

\* a binary operator on an array allocates its result: x / s, x + s
TrueDivide(a, s) == [result |-> ArrDivScalar(a, s), operand |-> a]

AddScalar(a, s) == [result |-> ArrAddScalar(a, s), operand |-> a]

\* numpy broadcasting of two one-dimensional arrays
Broadcastable(x, y) == Len(x) = Len(y) \/ Len(x) = 1 \/ Len(y) = 1

BroadcastLen(x, y) == IF Len(x) = 1 THEN Len(y) ELSE Len(x)

At(a, k) == IF Len(a) = 1 THEN a[1] ELSE a[k]

ArrDivide(x, y) == [k \in 1..BroadcastLen(x, y) |-> Div(At(x, k), At(y, k))]

----------------------------------------------------------------------------
(* calc_beta_rayleigh *)

\* 10**-9
NanoScale == Rat(1, 1000000000)

WavelengthMeters(w, nm) == IF nm THEN Mul(w, NanoScale) ELSE w

\* 2.938e-32 * (P/T) * wavelength**(-4.0117); P/T raises on shapes that do not broadcast
calc_beta_rayleigh(w, P, T, nm) ==
    LET wl == WavelengthMeters(w, nm)
    IN  IF ~Broadcastable(P, T) THEN Raised("ValueError")
        ELSE Ok(Quantity(<<Sym("2.938e-32 * wavelength ** -4.0117", <<wl>>)>>,
                         ArrDivide(P, T)))

----------------------------------------------------------------------------
(* calc_number_density *)

\* 273.15
KelvinOffset == Rat(27315, 100)

KelvinTemperature(T, c) == IF c THEN AddScalar(T, KelvinOffset) ELSE [result |-> T, operand |-> T]

calc_number_density(P, T, c) ==
    LET k == KelvinTemperature(T, c)
    IN  [out |-> IF ~Broadcastable(P, k.result) THEN Raised("ValueError")
                 ELSE Ok(Quantity(<<Sym("1 / kB", << >>)>>, ArrDivide(P, k.result))),
         temperature |-> k.operand]

----------------------------------------------------------------------------
(* calc_index_refraction, calc_depol_ratio, calc_rayleigh_scat_cross,       *)
(* calc_rayleigh_extinction                                                 *)

\* index of refraction of dry air: a closed form of the wavelength alone
calc_index_refraction(w) ==
    Sym("1.0 + (5791817.0/(238.0185 - 10**6/w**2) + 167909.0/(57.362 - 10**6/w**2))*1e-8", <<w>>)

\* the table of calc_depol_ratio; depolarize in units of 1e-7
wavelengths ==
    << 200, 205, 210, 215, 220,
       225, 230, 240, 250, 260,
       270, 280, 290, 300, 310,
       320, 330, 340, 350, 360,
       370, 380, 390, 400, 450,
       500, 550, 600, 650, 700,
       800, 850, 900, 950, 1000,
       1064 >>

depolarize ==
    << 454545, 438372, 422133, 411272, 400381,
       389462, 378513, 367534, 356527, 345489,
       339960, 328878, 323326, 317766, 317766,
       312199, 306624, 306624, 301042, 301042,
       301042, 295452, 295452, 295452, 289855,
       284250, 284250, 278638, 278638, 278638,
       273018, 273018, 273018, 273018, 273018,
       273018 >>

DepolAt(i) == Rat(depolarize[i], 10000000)

\* x < t and x > t for a finite fraction x and an integer t
BelowInt(x, t) == Floor(x) < t

AboveInt(x, t) == Floor(x) > t \/ (Floor(x) = t /\ x.d # 1)

\* the slip of guarding the lower end of the table only
OutOfBoundsBelowOnly(x) == ~IsFinite(x) \/ BelowInt(x, wavelengths[1])

\* interp1d(..., kind='linear') with its default bounds_error: a value outside
\* [x[0], x[-1]] raises ValueError
OutOfBounds(x) ==
    \/ ~IsFinite(x)
    \/ BelowInt(x, wavelengths[1])
    \/ AboveInt(x, wavelengths[Len(wavelengths)])

\* searchsorted(x, x_new) clipped to 1 .. len(x)-1; the segment is [hi-1, hi]
SegmentHi(x) ==
    LET idx == Cardinality({i \in 1..Len(wavelengths) : AboveInt(x, wavelengths[i])})
        clipped == IF idx < 1 THEN 1 ELSE IF idx > Len(wavelengths) - 1 THEN Len(wavelengths) - 1 ELSE idx
    IN  clipped + 1

Interpolate(x) ==
    LET hi == SegmentHi(x)
        lo == hi - 1
        slope == Div(Sub(DepolAt(hi), DepolAt(lo)), Whole(wavelengths[hi] - wavelengths[lo]))
    IN  Add(Mul(slope, Sub(x, Whole(wavelengths[lo]))), DepolAt(lo))

calc_depol_ratio(w) == IF OutOfBounds(w) THEN Raised("ValueError") ELSE Ok(Interpolate(w))

\* rs = 1e36*24*pi**3*(ior**2-1)**2 / (w**4*nstp**2*(ior**2+2)**2) * (6+3*depol)/(6-7*depol)
calc_rayleigh_scat_cross(w) ==
    LET ior == calc_index_refraction(w)
        depol == calc_depol_ratio(w)
    IN  IF IsRaised(depol) THEN depol
        ELSE Ok(Quantity(<<Sym("1e36*24*pi**3*(ior**2-1)**2 / (w**4*nstp**2*(ior**2+2)**2)", <<ior.args[1]>>),
                           Sym("(6+3*depol) / (6-7*depol)", <<depol.ret>>)>>,
                         Whole(1)))

\* numberDensity * calc_rayleigh_scat_cross(wavelength) * 1000
calc_rayleigh_extinction(w, numberDensity) ==
    LET rs == calc_rayleigh_scat_cross(w)
    IN  IF IsRaised(rs) THEN rs
        ELSE Ok(Quantity(numberDensity.f \o rs.ret.f,
                         ArrMulScalar(ArrMulScalar(numberDensity.v, rs.ret.v), Whole(1000))))

----------------------------------------------------------------------------
(* calc_rayleigh_trans *)

RECURSIVE SumArr(_)
SumArr(a) == IF a = << >> THEN Zero ELSE Add(a[1], SumArr(Tail(a)))

\* np.sum of a list of arrays: the sum of all their elements, 0.0 for none
RECURSIVE NpSum(_)
NpSum(l) == IF l = << >> THEN Zero ELSE Add(SumArr(l[1]), NpSum(Tail(l)))

\* the slip of dividing whatever the flag says
ScaleAltitudeAlways(altitude_profile, km) == TrueDivide(altitude_profile, Whole(1000))

\* if kilometers is True: altitude_profile = altitude_profile / 1000
ScaleAltitude(altitude_profile, km) ==
    IF km THEN TrueDivide(altitude_profile, Whole(1000))
    ELSE [result |-> altitude_profile, operand |-> altitude_profile]

\* the slip np.arange(1, len(altitude_profile) - 1): the last interval is lost
IntervalsShort(altitude_profile) == 1..(Len(altitude_profile) - 2)

\* np.arange(1, len(altitude_profile)), as the positions of the list it builds
Intervals(altitude_profile) == 1..(Len(altitude_profile) - 1)

\* the slip of integrating from the ground: a first interval from 0 to altitude_profile[0]
IntAlphaFromGround(ext, altitude_profile) ==
    [i \in 1..Len(altitude_profile) |->
        ArrMulScalar(ext, Sub(altitude_profile[i],
                              IF i = 1 THEN Zero ELSE altitude_profile[i - 1]))]

\* the slip of subtracting the wrong way round: altitude_profile[i-1] - altitude_profile[i]
IntAlphaReversed(ext, altitude_profile) ==
    [i \in Intervals(altitude_profile) |->
        ArrMulScalar(ext, Sub(altitude_profile[i], altitude_profile[i + 1]))]

\* [rayleigh_extinction * (altitude_profile[i] - altitude_profile[i-1]) for i in ...]
IntAlpha(ext, altitude_profile) ==
    [i \in Intervals(altitude_profile) |->
        ArrMulScalar(ext, Sub(altitude_profile[i + 1], altitude_profile[i]))]

\* np.exp(x): kept as its argument
Exp(f, x) == [exp |-> Quantity(f, x)]

calc_rayleigh_trans(ext, altitude_profile, km) ==
    LET scaled == ScaleAltitude(altitude_profile, km)
        int_alpha == IntAlpha(ext.v, scaled.result)
        total == NpSum(int_alpha)
    IN  [out |-> Ok(Exp(ext.f, Mul(Whole(-2), total))),
         altitude_profile |-> scaled.operand,
         frame |-> [altitude_profile |-> scaled.result, int_alpha |-> int_alpha, total |-> total]]

----------------------------------------------------------------------------
(* calc_rayleigh_beta_dot_trans *)

NoFrame == [altitude_profile |-> << >>, int_alpha |-> << >>, total |-> NaN]

\* return (beta_dot_trans, beta, numberDensity, alpha, rayleigh_trans)
ReturnTuple(beta, numberDensity, alpha, trans) ==
    [out |-> Ok([beta_dot_trans |-> Quantity(beta.ret.f \o <<trans.out.ret>>, beta.ret.v),
                 beta |-> beta.ret,
                 numberDensity |-> numberDensity.out.ret,
                 alpha |-> alpha.ret,
                 rayleigh_trans |-> trans.out.ret]),
     temperature |-> numberDensity.temperature,
     altitude |-> trans.altitude_profile,
     frame |-> trans.frame]

\* line 108 on, once alpha is evaluated; an exception of line 107 ends the call
AfterExtinction(beta, numberDensity, alpha, alt, km) ==
    IF IsRaised(alpha)
    THEN [out |-> alpha, temperature |-> numberDensity.temperature,
          altitude |-> alt, frame |-> NoFrame]
    ELSE ReturnTuple(beta, numberDensity, alpha, calc_rayleigh_trans(alpha.ret, alt, km))

\* line 107 on, once numberDensity is evaluated
AfterNumberDensity(w, beta, numberDensity, alt, km) ==
    IF IsRaised(numberDensity.out)
    THEN [out |-> numberDensity.out, temperature |-> numberDensity.temperature,
          altitude |-> alt, frame |-> NoFrame]
    ELSE AfterExtinction(beta, numberDensity,
                         calc_rayleigh_extinction(w, numberDensity.out.ret), alt, km)

\* line 106 on, once beta is evaluated
AfterBeta(w, P, T, alt, km, c, beta) ==
    IF IsRaised(beta)
    THEN [out |-> beta, temperature |-> T, altitude |-> alt, frame |-> NoFrame]
    ELSE AfterNumberDensity(w, beta, calc_number_density(P, T, c), alt, km)

calc_rayleigh_beta_dot_trans(w, P, T, alt, nm, km, c) ==
    AfterBeta(w, P, T, alt, km, c, calc_beta_rayleigh(w, P, T, nm))

----------------------------------------------------------------------------
(* Inputs *)

SeqsUpTo(S, n) == UNION {[1..k -> S] : k \in 0..n}

RECURSIVE Ascending(_)
Ascending(S) ==
    IF S = {} THEN << >>
    ELSE LET m == CHOOSE x \in S : \A y \in S : x <= y
         IN  <<m>> \o Ascending(S \ {m})

Reverse(q) == [k \in 1..Len(q) |-> q[Len(q) + 1 - k]]

Wholes(q) == [k \in 1..Len(q) |-> Whole(q[k])]

SubsetsUpTo(S, n) == {T \in SUBSET S : Cardinality(T) <= n}

\* pressure falls and altitude rises along a profile; the three arrays may
\* still differ in length or be empty
PressureProfiles == {Wholes(Reverse(Ascending(T))) : T \in SubsetsUpTo(Pressures, MaxProfile)}

AltitudeProfiles == {Wholes(Ascending(T)) : T \in SubsetsUpTo(Altitudes, MaxProfile)}

Temperatures == {Rat(t[1], t[2]) : t \in TemperatureSamples}

TemperatureProfiles == SeqsUpTo(Temperatures, MaxProfile)

NotCalled == [pending |-> TRUE]

Functions == {"calc_rayleigh_beta_dot_trans", "other_unit", "calc_beta_rayleigh",
              "calc_number_density", "calc_depol_ratio", "calc_rayleigh_scat_cross",
              "calc_rayleigh_extinction", "calc_rayleigh_trans"}

EmptyArray == Quantity(Unit, << >>)

\* the wavelength is handed over in the unit its flag names
Init ==
    /\ nanometers \in BOOLEAN
    /\ wavelength \in {IF nanometers THEN Whole(w) ELSE Mul(Whole(w), NanoScale) : w \in WavelengthsNm}
    /\ kilometers \in BOOLEAN
    /\ celsius \in BOOLEAN
    /\ pressure \in PressureProfiles
    /\ temperature \in TemperatureProfiles
    /\ altitude \in AltitudeProfiles
    /\ rayleigh_extinction = EmptyArray
    /\ pc = "pipeline"
    /\ returned = [f \in Functions |-> NotCalled]
    /\ locals = NoFrame

\* calc_rayleigh_trans called directly on any extinction and altitude arrays
InitTrans ==
    /\ wavelength = Whole(1064)
    /\ nanometers = TRUE
    /\ kilometers \in BOOLEAN
    /\ celsius = TRUE
    /\ pressure = << >>
    /\ temperature = << >>
    /\ altitude \in {Wholes(q) : q \in SeqsUpTo(Altitudes, MaxLen)}
    /\ rayleigh_extinction \in {Quantity(Unit, Wholes(q)) : q \in SeqsUpTo(Extinctions, MaxLen)}
    /\ pc = "calc_rayleigh_trans"
    /\ returned = [f \in Functions |-> NotCalled]
    /\ locals = NoFrame

----------------------------------------------------------------------------
(* The calling script: one action per call *)

Flags == <<nanometers, kilometers, celsius>>

\* what a call of the pipeline leaves behind: its result under `key`, the
\* argument objects as the callee left them, the frame of calc_rayleigh_trans
PipelineCalled(key, r) ==
    /\ returned' = [returned EXCEPT ![key] = r.out]
    /\ temperature' = r.temperature
    /\ altitude' = r.altitude
    /\ locals' = IF IsOk(r.out) THEN r.frame ELSE locals

\* beta_dot_trans, beta, numberDensity, alpha, rayleigh_trans = calc_rayleigh_beta_dot_trans(...)
CallPipeline(at, next) ==
    /\ pc = at
    /\ PipelineCalled("calc_rayleigh_beta_dot_trans",
                      calc_rayleigh_beta_dot_trans(wavelength, pressure, temperature, altitude,
                                                   nanometers, kilometers, celsius))
    /\ pc' = next
    /\ UNCHANGED <<wavelength, pressure, rayleigh_extinction, Flags>>

CallBetaDotTrans == CallPipeline("pipeline", "again")

CallBetaDotTransAgain == CallPipeline("again", "other_unit")

\* the same physical wavelength handed over in the other unit, the flag flipped
OtherUnit(w, nm) == IF nm THEN Mul(w, NanoScale) ELSE Div(w, NanoScale)

CallOtherUnit ==
    /\ pc = "other_unit"
    /\ PipelineCalled("other_unit",
                      calc_rayleigh_beta_dot_trans(OtherUnit(wavelength, nanometers), pressure,
                                                   temperature, altitude,
                                                   ~nanometers, kilometers, celsius))
    /\ pc' = "calc_beta_rayleigh"
    /\ UNCHANGED <<wavelength, pressure, rayleigh_extinction, Flags>>

CallBetaRayleigh ==
    /\ pc = "calc_beta_rayleigh"
    /\ returned' = [returned EXCEPT !["calc_beta_rayleigh"] =
                        calc_beta_rayleigh(wavelength, pressure, temperature, nanometers)]
    /\ pc' = "calc_number_density"
    /\ UNCHANGED <<wavelength, pressure, temperature, altitude, rayleigh_extinction, Flags, locals>>

CallNumberDensity ==
    /\ pc = "calc_number_density"
    /\ LET r == calc_number_density(pressure, temperature, celsius)
       IN  /\ returned' = [returned EXCEPT !["calc_number_density"] = r.out]
           /\ temperature' = r.temperature
    /\ pc' = "calc_depol_ratio"
    /\ UNCHANGED <<wavelength, pressure, altitude, rayleigh_extinction, Flags, locals>>

CallDepolRatio ==
    /\ pc = "calc_depol_ratio"
    /\ returned' = [returned EXCEPT !["calc_depol_ratio"] = calc_depol_ratio(wavelength)]
    /\ pc' = "calc_rayleigh_scat_cross"
    /\ UNCHANGED <<wavelength, pressure, temperature, altitude, rayleigh_extinction, Flags, locals>>

CallScatCross ==
    /\ pc = "calc_rayleigh_scat_cross"
    /\ returned' = [returned EXCEPT !["calc_rayleigh_scat_cross"] =
                        calc_rayleigh_scat_cross(wavelength)]
    /\ pc' = "calc_rayleigh_extinction"
    /\ UNCHANGED <<wavelength, pressure, temperature, altitude, rayleigh_extinction, Flags, locals>>

\* the number density handed over is the one calc_number_density returned, if any
DensityArgument ==
    IF IsOk(returned["calc_number_density"]) THEN returned["calc_number_density"].ret
    ELSE EmptyArray

\* the caller keeps the extinction it got and hands it to calc_rayleigh_trans
CallExtinction ==
    /\ pc = "calc_rayleigh_extinction"
    /\ LET r == calc_rayleigh_extinction(wavelength, DensityArgument)
       IN  /\ returned' = [returned EXCEPT !["calc_rayleigh_extinction"] = r]
           /\ rayleigh_extinction' = IF IsOk(r) THEN r.ret ELSE rayleigh_extinction
    /\ pc' = "calc_rayleigh_trans"
    /\ UNCHANGED <<wavelength, pressure, temperature, altitude, Flags, locals>>

CallRayleighTrans ==
    /\ pc = "calc_rayleigh_trans"
    /\ LET r == calc_rayleigh_trans(rayleigh_extinction, altitude, kilometers)
       IN  /\ returned' = [returned EXCEPT !["calc_rayleigh_trans"] = r.out]
           /\ altitude' = r.altitude_profile
           /\ locals' = r.frame
    /\ pc' = "done"
    /\ UNCHANGED <<wavelength, pressure, temperature, rayleigh_extinction, Flags>>

Next ==
    \/ CallBetaDotTrans
    \/ CallBetaDotTransAgain
    \/ CallOtherUnit
    \/ CallBetaRayleigh
    \/ CallNumberDensity
    \/ CallDepolRatio
    \/ CallScatCross
    \/ CallExtinction
    \/ CallRayleighTrans

Spec == Init /\ [][Next]_vars

NextTrans == CallRayleighTrans

SpecTrans == InitTrans /\ [][NextTrans]_vars

----------------------------------------------------------------------------
(* Properties of calc_rayleigh_trans, checked under SpecTrans *)

TransReturned == pc = "done" /\ IsOk(returned["calc_rayleigh_trans"])

Transmission == returned["calc_rayleigh_trans"].ret

NonNegative(x) == IsFinite(x) /\ x.n >= 0

StrictlyIncreasing(z) == \A i \in 1..(Len(z) - 1) : IsFinite(Sub(z[i + 1], z[i])) /\ Sub(z[i + 1], z[i]).n > 0

RECURSIVE CountProducts(_)
CountProducts(l) == IF l = << >> THEN 0 ELSE Len(l[1]) + CountProducts(Tail(l))

\* sum over i = 1..n-1 (code indices) of a[i] * (z[i] - z[i-1])
RECURSIVE PerSampleSum(_, _, _)
PerSampleSum(a, z, n) ==
    IF n < 2 THEN Zero
    ELSE Add(PerSampleSum(a, z, n - 1), Mul(a[n], Sub(z[n], z[n - 1])))

\* C1: for profiles a[0..n-1], z[0..n-1] with n >= 2 the call accumulates one
\* scalar term per interval, a[i] * (z[i] - z[i-1]), so n-1 products in all,
\* and returns exp(-2 * their sum).
C1_OneTermPerInterval ==
    (TransReturned /\ Len(altitude) >= 2 /\ Len(rayleigh_extinction.v) = Len(altitude)) =>
        /\ Len(locals.int_alpha) = Len(altitude) - 1
        /\ CountProducts(locals.int_alpha) = Len(altitude) - 1
        /\ locals.total = PerSampleSum(rayleigh_extinction.v, locals.altitude_profile, Len(altitude))
        /\ Transmission.exp.v = Mul(Whole(-2), locals.total)

\* C4 as stated: with kilometers=True every altitude sample used in the
\* integration is the input multiplied by 1000, otherwise the input itself.
C4_TimesThousand ==
    TransReturned =>
        /\ Len(locals.altitude_profile) = Len(altitude)
        /\ \A i \in 1..Len(altitude) :
              locals.altitude_profile[i] =
                  IF kilometers THEN Mul(altitude[i], Whole(1000)) ELSE altitude[i]

\* C4 amended: with kilometers=True every altitude sample used in the
\* integration is the input divided by 1000, otherwise the input itself.
C4_DividedByThousand ==
    TransReturned =>
        /\ Len(locals.altitude_profile) = Len(altitude)
        /\ \A i \in 1..Len(altitude) :
              locals.altitude_profile[i] =
                  IF kilometers THEN Rat(altitude[i].n, altitude[i].d * 1000) ELSE altitude[i]

C4_Witness ==
    /\ TransReturned
    /\ kilometers
    /\ Len(altitude) >= 2
    /\ altitude[2] = Whole(500)
    /\ locals.altitude_profile[2] = Rat(1, 2)

\* C7: with fewer than 2 altitude samples there is no interval, the sum is 0
\* and the transmission is exp(0) = 1, whatever the extinction values.
C7_NoIntervalGivesOne ==
    (TransReturned /\ Len(altitude) < 2) =>
        /\ locals.int_alpha = << >>
        /\ locals.total = Zero
        /\ Transmission.exp.v = Zero

C7_Witness ==
    /\ TransReturned
    /\ Len(altitude) = 1
    /\ altitude[1] # Zero
    /\ Len(rayleigh_extinction.v) >= 1
    /\ \A k \in 1..Len(rayleigh_extinction.v) : rayleigh_extinction.v[k] # Zero
    /\ Transmission.exp.v = Zero

C10_SumTimesSpan ==
    (TransReturned /\ Len(altitude) >= 2) =>
        LET z == locals.altitude_profile
            product == Mul(SumArr(rayleigh_extinction.v), Sub(z[Len(z)], z[1]))
        IN  /\ Len(z) = Len(altitude)
            /\ locals.total = product
            /\ Transmission.exp.v = Mul(Whole(-2), product)

C10_Witness ==
    /\ TransReturned
    /\ Len(altitude) = 3
    /\ Len(rayleigh_extinction.v) = 3
    /\ altitude[2] # altitude[1] /\ altitude[2] # altitude[3] /\ altitude[1] # altitude[3]
    /\ Less(altitude[3], altitude[2])
    /\ rayleigh_extinction.v[1] # rayleigh_extinction.v[2]
    /\ locals.total # Zero

----------------------------------------------------------------------------
(* Properties of the pipeline, checked under Spec *)

First == returned["calc_rayleigh_beta_dot_trans"]

Called(f) == returned[f] # NotCalled

\* C2: the call with the wavelength in the other unit and the flag flipped
\* returns the same five outputs.
C2_UnitFlagInvariant ==
    Called("other_unit") => returned["other_unit"] = First

\* C3: with celsius=True both the backscatter coefficient and the number
\* density are computed from the kelvin temperature T + 273.15, at every sample.
C3_KelvinEverywhere ==
    (IsOk(First) /\ celsius /\ Len(pressure) = Len(temperature)) =>
        \A i \in 1..Len(pressure) :
            LET kelvin == Add(temperature[i], Rat(27315, 100))
            IN  /\ First.ret.beta.v[i] = Div(pressure[i], kelvin)
                /\ First.ret.numberDensity.v[i] = Div(pressure[i], kelvin)

\* C5: pressure, temperature and altitude of unequal length, or empty, make
\* the call report an error and return nothing.
C5_ShapeErrorReported ==
    (/\ Called("calc_rayleigh_beta_dot_trans")
     /\ \/ Len(pressure) # Len(temperature)
        \/ Len(altitude) # Len(pressure)
        \/ Len(pressure) = 0) =>
        IsRaised(First)

\* the wavelength, read as a number of nanometers, is outside the table
OutsideTable(w) ==
    \/ w.n < w.d
    \/ Less(w, Whole(200))
    \/ Less(Whole(1064), w)

\* C6: for a wavelength below 200 or above 1064 calc_depol_ratio raises, and
\* so calc_rayleigh_scat_cross, calc_rayleigh_extinction and
\* calc_rayleigh_beta_dot_trans return nothing.
C6_OutOfTableRaises ==
    OutsideTable(wavelength) =>
        \A f \in {"calc_depol_ratio", "calc_rayleigh_scat_cross",
                  "calc_rayleigh_extinction", "calc_rayleigh_beta_dot_trans"} :
            Called(f) => IsRaised(returned[f])

C6_Witness ==
    /\ pc = "done"
    /\ wavelength = Whole(1065)
    /\ Len(pressure) = 2 /\ Len(temperature) = 2 /\ Len(altitude) = 2
    /\ IsRaised(First)
    /\ IsRaised(returned["calc_depol_ratio"])
    /\ IsRaised(returned["calc_rayleigh_extinction"])
    /\ IsOk(returned["calc_beta_rayleigh"])

\* C9: no call changes the caller's wavelength, pressure, temperature,
\* altitude or extinction objects, and a repeated call of the pipeline with
\* the same inputs returns what the first returned.
C9_NoInputMutated ==
    [][/\ wavelength' = wavelength
       /\ pressure' = pressure
       /\ temperature' = temperature
       /\ altitude' = altitude
       /\ (pc # "calc_rayleigh_extinction" => rayleigh_extinction' = rayleigh_extinction)
       /\ (Called("calc_rayleigh_beta_dot_trans") =>
              returned'["calc_rayleigh_beta_dot_trans"] = First)]_vars

C9_Witness ==
    /\ pc = "done"
    /\ nanometers /\ kilometers /\ celsius
    /\ IsOk(First)
    /\ Len(altitude) = 2 /\ altitude[2] = Whole(2000)
    /\ Len(temperature) = 2 /\ temperature[1] = Zero
    /\ locals.altitude_profile[2] = Whole(2)
    /\ First.ret.numberDensity.v[1] = Div(pressure[1], Rat(27315, 100))

====
